---------------------------- MODULE Spec2Model ----------------------------
(***************************************************************************)
(* A model of gore's eval package: the chunker (nextChunk and its          *)
(* readers), the line partitioner (partition, addChunk, processLine,       *)
(* addLine), import inference and repair, and the compile/retry control    *)
(* flow of Eval / buildAndExec / run.                                      *)
(*                                                                         *)
(* Text is a sequence of one-character strings.  The external "go run" is  *)
(* the environment: it answers every invocation with an exit status and a  *)
(* sequence of output lines.  SpecRace runs two invocations of Eval side   *)
(* by side on the one file gore_eval.go.                                   *)
(***************************************************************************)
EXTENDS Integers, Sequences, FiniteSets, TLC

VARIABLES
    code,        \* Eval's argument
    pc,          \* position of the invocation in Eval / partition / buildAndExec / run
    site,        \* which call of run is active: "passthrough", "first", "retry"
    src,         \* the text handed to partition (the scanner's input)
    pos,         \* the scanner's read cursor: number of characters consumed
    state,       \* partition's *State
    lineNum,     \* partition's loop variable of the second loop
    topLevel,    \* partition's topLevel buffer
    nonTopLevel, \* partition's nonTopLevel buffer
    routed,      \* per processed line: where partition appended it, and the depth around it
    unit,        \* the source text about to be saved (run's argument)
    tmpfile,     \* contents of $TMPDIR/gore_eval.go
    execs,       \* the "go run" invocations made so far: the unit run and the exit status
    attempts,    \* number of calls of run made so far
    out,         \* Eval's first result
    err,         \* Eval's second result
    panicked,    \* whether a panic was recovered by Eval's deferred function
    calls        \* the invocations of Eval that run side by side, each with its own locals

vars == <<code, pc, site, src, pos, state, lineNum, topLevel, nonTopLevel,
          routed, unit, tmpfile, execs, attempts, out, err, panicked, calls>>

---------------------------------------------------------------------------
(* Characters *)

NL == "\n"
DQ == "\""
SQ == "'"
\* the back quote; SANY's lexer does not take that character in a string
BQ == "BQ"
BS == "\\"
TAB == "\t"
SP == " "
NoRune == "NUL"

Lower ==
    {"a","b","c","d","e","f","g","h","i","j","k","l","m",
     "n","o","p","q","r","s","t","u","v","w","x","y","z"}

WordChars ==
    Lower \cup {"A","P","T","X","0","1","2","_"}

\* \s of the regexp package, restricted to the characters of the model
ReSpace == {SP, TAB, NL}

\* unicode.IsSpace as strings.TrimSpace uses it, restricted likewise
UniSpace == {SP, TAB, NL}

RECURSIVE Concat(_)
Concat(ss) ==
    IF ss = <<>> THEN <<>> ELSE Head(ss) \o Concat(Tail(ss))

RECURSIVE CountOf(_, _)
CountOf(c, s) ==
    IF s = <<>> THEN 0
    ELSE (IF Head(s) = c THEN 1 ELSE 0) + CountOf(c, Tail(s))

HasPrefix(s, p) ==
    Len(s) >= Len(p) /\ SubSeq(s, 1, Len(p)) = p

RECURSIVE TrimLeft(_, _)
TrimLeft(s, cutset) ==
    IF s # <<>> /\ Head(s) \in cutset THEN TrimLeft(Tail(s), cutset) ELSE s

RECURSIVE TrimRight(_, _)
TrimRight(s, cutset) ==
    IF s # <<>> /\ s[Len(s)] \in cutset
    THEN TrimRight(SubSeq(s, 1, Len(s) - 1), cutset)
    ELSE s

TrimSpace(s) ==
    TrimRight(TrimLeft(s, UniSpace), UniSpace)

---------------------------------------------------------------------------
(* The Scanner: a read cursor over the input.  A mark is the number of     *)
(* characters still unread, so that a larger mark is an earlier position.  *)

Mark(s, p) ==
    Len(s) - p

Reset(s, mark) ==
    Len(s) - mark

Slice(s, mark, p) ==
    SubSeq(s, Len(s) - mark + 1, p)

ReadRune(s, p) ==
    IF p >= Len(s)
    THEN [ch |-> NoRune, err |-> "EOF", pos |-> p]
    ELSE [ch |-> s[p + 1], err |-> "nil", pos |-> p + 1]

UnreadRune(s, p) ==
    IF p > 0 THEN p - 1 ELSE p

---------------------------------------------------------------------------
(* Chunks *)

KSTRING == 1
KCOMMENT == 2
KTEXT == 3

Chunk(kind, text, numNL) ==
    [kind |-> kind, text |-> text, numNL |-> numNL]

ZeroChunk ==
    Chunk(0, <<>>, 0)

\* what a reader hands back: the chunk, the error, and the cursor it leaves
Ret(chunk, e, p) ==
    [chunk |-> chunk, err |-> e, pos |-> p, panic |-> FALSE]

PanicNewline(p) ==
    [chunk |-> ZeroChunk, err |-> "nil", pos |-> p, panic |-> TRUE]

\* mkChunk without the delay of io.EOF: the error is handed on as it came
mkChunkNoDelay(s, mark, p, kind, numLines, e) ==
    Ret(Chunk(kind, Slice(s, mark, p), numLines), e, p)

mkChunk(s, mark, p, kind, numLines, e) ==
    LET text == Slice(s, mark, p)
    IN  Ret(Chunk(kind, text, numLines),
            IF Len(text) > 0 /\ e = "EOF" THEN "nil" ELSE e,
            p)

RECURSIVE readSingleLineComment(_, _, _)
readSingleLineComment(s, mark, p) ==
    LET r == ReadRune(s, p)
    IN  IF r.err # "nil" \/ r.ch = NL
        THEN mkChunk(s, mark, r.pos, KCOMMENT, 1, r.err)
        ELSE readSingleLineComment(s, mark, r.pos)

RECURSIVE readMultilineCommentLoop(_, _, _, _)
readMultilineCommentLoop(s, mark, p, numLines) ==
    LET r == ReadRune(s, p)
    IN  IF r.err # "nil"
        THEN mkChunk(s, mark, r.pos, KCOMMENT, numLines, r.err)
        ELSE IF r.ch = "*"
        THEN LET r2 == ReadRune(s, r.pos)
             IN  IF r2.err # "nil" \/ r2.ch = "/"
                 THEN mkChunk(s, mark, r2.pos, KCOMMENT, numLines, r2.err)
                 ELSE readMultilineCommentLoop(s, mark, r2.pos, numLines)
        ELSE IF r.ch = NL
        THEN readMultilineCommentLoop(s, mark, r.pos, numLines + 1)
        ELSE readMultilineCommentLoop(s, mark, r.pos, numLines)

readMultilineComment(s, mark, p) ==
    readMultilineCommentLoop(s, mark, p, 0)

RECURSIVE readString(_, _, _, _)
readString(s, mark, p, endCh) ==
    LET r == ReadRune(s, p)
    IN  IF r.err # "nil"
        THEN mkChunk(s, mark, r.pos, KSTRING, 0, r.err)
        ELSE IF r.ch = endCh
        THEN mkChunk(s, mark, r.pos, KSTRING, 0, "nil")
        ELSE IF r.ch = BS
        THEN readString(s, mark, ReadRune(s, r.pos).pos, endCh)
        ELSE IF r.ch = NL
        THEN PanicNewline(r.pos)
        ELSE readString(s, mark, r.pos, endCh)

RECURSIVE readMultilineStringLoop(_, _, _, _)
readMultilineStringLoop(s, mark, p, numLines) ==
    LET r == ReadRune(s, p)
    IN  IF r.err # "nil"
        THEN mkChunk(s, mark, r.pos, KSTRING, 1, r.err)
        ELSE IF r.ch = BQ
        THEN mkChunk(s, mark, r.pos, KSTRING, numLines, "nil")
        ELSE IF r.ch = NL
        THEN readMultilineStringLoop(s, mark, r.pos, numLines + 1)
        ELSE readMultilineStringLoop(s, mark, r.pos, numLines)

readMultilineString(s, mark, p) ==
    readMultilineStringLoop(s, mark, p, 0)

\* readText that, before a comment, resets the scanner one character too far
RECURSIVE readTextResetsTooFar(_, _, _)
readTextResetsTooFar(s, mark, p) ==
    LET r == ReadRune(s, p)
    IN  IF r.err # "nil"
        THEN mkChunk(s, mark, r.pos, KTEXT, 0, r.err)
        ELSE IF r.ch = "/"
        THEN LET slashMark == Mark(s, r.pos)
                 r2 == ReadRune(s, r.pos)
             IN  IF r2.ch = "*" \/ r2.ch = "/"
                 THEN mkChunk(s, mark, Reset(s, slashMark + 2), KTEXT, 0, "nil")
                 ELSE readTextResetsTooFar(s, mark, r2.pos)
        ELSE IF r.ch \in {BQ, DQ, SQ}
        THEN mkChunk(s, mark, UnreadRune(s, r.pos), KTEXT, 0, "nil")
        ELSE IF r.ch = NL
        THEN mkChunk(s, mark, r.pos, KTEXT, 1, "nil")
        ELSE readTextResetsTooFar(s, mark, r.pos)

RECURSIVE readText(_, _, _)
readText(s, mark, p) ==
    LET r == ReadRune(s, p)
    IN  IF r.err # "nil"
        THEN mkChunk(s, mark, r.pos, KTEXT, 0, r.err)
        ELSE IF r.ch = "/"
        THEN LET slashMark == Mark(s, r.pos)
                 r2 == ReadRune(s, r.pos)
             IN  IF r2.ch = "*" \/ r2.ch = "/"
                 THEN mkChunk(s, mark, Reset(s, slashMark + 1), KTEXT, 0, "nil")
                 ELSE readText(s, mark, r2.pos)
        ELSE IF r.ch \in {BQ, DQ, SQ}
        THEN mkChunk(s, mark, UnreadRune(s, r.pos), KTEXT, 0, "nil")
        ELSE IF r.ch = NL
        THEN mkChunk(s, mark, r.pos, KTEXT, 1, "nil")
        ELSE readText(s, mark, r.pos)

nextChunk(s, p) ==
    LET mark == Mark(s, p)
        r == ReadRune(s, p)
    IN  IF r.err # "nil"
        THEN Ret(ZeroChunk, r.err, r.pos)
        ELSE IF r.ch = "/"
        THEN LET r2 == ReadRune(s, r.pos)
             IN  IF r2.err # "nil"
                 THEN mkChunk(s, mark, r2.pos, KCOMMENT, 0, r2.err)
                 ELSE IF r2.ch = "/"
                 THEN readSingleLineComment(s, mark, r2.pos)
                 ELSE IF r2.ch = "*"
                 THEN readMultilineComment(s, mark, r2.pos)
                 ELSE readText(s, mark, r2.pos)
        ELSE IF r.ch \in {DQ, SQ}
        THEN readString(s, mark, r.pos, r.ch)
        ELSE IF r.ch = BQ
        THEN readMultilineString(s, mark, r.pos)
        ELSE IF r.ch = NL
        THEN mkChunk(s, mark, r.pos, KTEXT, 1, r.err)
        ELSE readText(s, mark, r.pos)

---------------------------------------------------------------------------
(* Import inference *)

\* the package paths of init's list that the model's inputs can name
pkgs ==
    { <<"f","m","t">>,
      <<"o","s">>,
      <<"i","o">>,
      <<"m","a","t","h","/","r","a","n","d">> }

RECURSIVE LastIndex(_, _)
LastIndex(s, c) ==
    IF s = <<>> THEN 0
    ELSE IF s[Len(s)] = c THEN Len(s)
    ELSE LastIndex(SubSeq(s, 1, Len(s) - 1), c)

\* builtinPkgs[pkg[strings.LastIndex(pkg, "/")+1:]] = pkg
ShortName(pkg) ==
    SubSeq(pkg, LastIndex(pkg, "/") + 1, Len(pkg))

builtinPkgs ==
    [short \in {ShortName(pkg) : pkg \in pkgs} |->
        CHOOSE pkg \in pkgs : ShortName(pkg) = short]

\* the end of the run of word characters that starts at index i
RECURSIVE WordEnd(_, _)
WordEnd(s, i) ==
    IF i + 1 <= Len(s) /\ s[i + 1] \in WordChars THEN WordEnd(s, i + 1) ELSE i

\* pkgPat.FindAllString(code, -1) for pkgPat = (?m)\b[a-z]\w+\. , each match
\* without its trailing '.'
RECURSIVE FindAllPkg(_, _)
FindAllPkg(s, i) ==
    IF i > Len(s) THEN <<>>
    ELSE LET j == WordEnd(s, i)
         IN  IF /\ s[i] \in Lower
                /\ (i = 1 \/ s[i - 1] \notin WordChars)
                /\ j > i
                /\ j + 1 <= Len(s)
                /\ s[j + 1] = "."
             THEN <<SubSeq(s, i, j)>> \o FindAllPkg(s, j + 2)
             ELSE FindAllPkg(s, i + 1)

\* inferPackages that records the qualifier as it was written instead of the path
inferPackagesAsWritten(text, pkgsToImport) ==
    pkgsToImport \cup
        { FindAllPkg(text, 1)[k] :
            k \in { n \in 1..Len(FindAllPkg(text, 1)) :
                        FindAllPkg(text, 1)[n] \in DOMAIN builtinPkgs } }

inferPackages(text, pkgsToImport) ==
    pkgsToImport \cup
        { builtinPkgs[FindAllPkg(text, 1)[k]] :
            k \in { n \in 1..Len(FindAllPkg(text, 1)) :
                        FindAllPkg(text, 1)[n] \in DOMAIN builtinPkgs } }

---------------------------------------------------------------------------
(* partition *)

NoClosingCh == SP

NewState ==
    [lineNum |-> 1, pkgsToImport |-> {}, isTopLevel |-> FALSE, brackOpenAt |-> 0,
     closingCh |-> NoClosingCh, brackCount |-> 0, chunks |-> <<>>]

addChunk(st, chunk) ==
    LET chunks == IF st.lineNum \in DOMAIN st.chunks
                  THEN st.chunks[st.lineNum] ELSE <<>>
    IN  [st EXCEPT
            !.chunks = [n \in DOMAIN st.chunks \cup {st.lineNum} |->
                           IF n = st.lineNum THEN Append(chunks, chunk)
                           ELSE st.chunks[n]],
            !.lineNum = st.lineNum + chunk.numNL]

RECURSIVE extractTxt(_)
extractTxt(chunks) ==
    IF chunks = <<>> THEN <<>>
    ELSE (IF Head(chunks).kind = KTEXT THEN Head(chunks).text ELSE <<>>)
         \o extractTxt(Tail(chunks))

RECURSIVE ChunkTexts(_)
ChunkTexts(chunks) ==
    IF chunks = <<>> THEN <<>>
    ELSE Head(chunks).text \o ChunkTexts(Tail(chunks))

RECURSIVE InferAll(_, _)
InferAll(chunks, pkgsToImport) ==
    IF chunks = <<>> THEN pkgsToImport
    ELSE InferAll(Tail(chunks),
                  IF Head(chunks).kind = KTEXT
                  THEN inferPackages(Head(chunks).text, pkgsToImport)
                  ELSE pkgsToImport)

Kfunc == <<"f","u","n","c"," ">>
Ktype == <<"t","y","p","e"," ">>
Kimport == <<"i","m","p","o","r","t"," ">>

IsDecl(l) ==
    HasPrefix(l, Kfunc) \/ HasPrefix(l, Ktype) \/ HasPrefix(l, Kimport)

\* closeStep with the declaration test made at every depth
closeStepAnyDepth(st, l) ==
    IF Len(l) > 0
    THEN IF l[1] = st.closingCh
         THEN IF st.brackCount - 1 = 0
              THEN [st EXCEPT !.brackCount = 0, !.closingCh = NoClosingCh,
                              !.brackOpenAt = 0]
              ELSE [st EXCEPT !.brackCount = st.brackCount - 1]
         ELSE [st EXCEPT !.isTopLevel = IsDecl(l)]
    ELSE st

\* closeStep that counts the closer and leaves closingCh and brackOpenAt as they are
closeStepNoReset(st, l) ==
    IF Len(l) > 0
    THEN IF l[1] = st.closingCh
         THEN [st EXCEPT !.brackCount = st.brackCount - 1]
         ELSE IF st.brackCount = 0
              THEN [st EXCEPT !.isTopLevel = IsDecl(l)]
              ELSE st
    ELSE st

\* lines 249-265: a closer at the start of the line, else the declaration test
closeStep(st, l) ==
    IF Len(l) > 0
    THEN IF l[1] = st.closingCh
         THEN IF st.brackCount - 1 = 0
              THEN [st EXCEPT !.brackCount = 0, !.closingCh = NoClosingCh,
                              !.brackOpenAt = 0]
              ELSE [st EXCEPT !.brackCount = st.brackCount - 1]
         ELSE IF st.brackCount = 0
              THEN [st EXCEPT !.isTopLevel = IsDecl(l)]
              ELSE st
    ELSE st

\* lines 266-283: an opener at the end of the line
openStep(st, l) ==
    IF Len(l) > 0 /\ l[Len(l)] \in {"{", "("}
    THEN [st EXCEPT
            !.closingCh = IF l[Len(l)] = "{" THEN "}" ELSE ")",
            !.brackOpenAt = IF st.brackCount = 0 THEN st.lineNum ELSE st.brackOpenAt,
            !.brackCount = st.brackCount + 1]
    ELSE st

processLine(n, st) ==
    IF n \notin DOMAIN st.chunks
    THEN [state |-> st, retLine |-> <<>>]
    ELSE LET chunks == st.chunks[n]
             st1 == [st EXCEPT !.pkgsToImport = InferAll(chunks, st.pkgsToImport)]
             l == TrimLeft(extractTxt(chunks), {SP, TAB})
             st2 == closeStep(st1, l)
             st3 == openStep(st2, TrimSpace(l))
         IN  [state |-> st3, retLine |-> ChunkTexts(chunks)]

\* fmt.Sprintf("//line :%d\n", lineNum): the directive's text as one element,
\* then its newline
LineDirective(n) ==
    <<"//line :" \o ToString(n), NL>>

addLine(n, buf, line) ==
    IF Len(buf) = 0 \/ buf[Len(buf)] = NL
    THEN buf \o LineDirective(n) \o line
    ELSE buf \o line

---------------------------------------------------------------------------
(* Result text: a string Eval returns is a sequence of pieces; "" is <<>> *)

Piece(k, a, n, m) ==
    [k |-> k, a |-> a, n |-> n, m |-> m]

\* fmt.Sprintf("1:%v", e) for the three panic values of the package
ErrNewline(p) ==
    <<Piece("1:", <<>>, 0, 0), Piece("Newline in string @ ", <<>>, p, 0)>>

ErrBracket(openAt, count) ==
    <<Piece("1:", <<>>, 0, 0), Piece(": Bracket or paren not closed. ", <<>>, openAt, count)>>

ErrOpenFile ==
    <<Piece("1:", <<>>, 0, 0), Piece("Unable to open file: ", <<>>, 0, 0)>>

---------------------------------------------------------------------------
(* Bounds and inputs *)

MaxLen == 4

ChunkAlphabet ==
    {"/", "*", NL, DQ, SQ, BQ, BS, "a"}

Strings(alphabet, n) ==
    UNION { [1..k -> alphabet] : k \in 0..n }

ChunkInputs ==
    Strings(ChunkAlphabet, MaxLen)

\* the import clauses of a unit: how many clauses name each path
NoClauses ==
    [k \in {} |-> 1]

NoUnit ==
    [wrapped |-> FALSE, imports |-> {}, clauses |-> NoClauses, topLevel |-> <<>>,
     main |-> <<>>, raw |-> <<>>]

\* the state in which partition(text) is entered
AtPartition(text) ==
    /\ src = text
    /\ pos = 0
    /\ state = NewState
    /\ lineNum = 0
    /\ topLevel = <<>>
    /\ nonTopLevel = <<>>
    /\ routed = <<>>
    /\ unit = NoUnit
    /\ tmpfile = NoUnit
    /\ execs = <<>>
    /\ attempts = 0
    /\ out = <<>>
    /\ err = <<>>
    /\ panicked = FALSE
    /\ site = "none"
    /\ calls = <<>>

---------------------------------------------------------------------------
(* Actions: partition's first loop, one nextChunk call per step *)

\* Eval's deferred recover
Recovered(e) ==
    /\ out' = <<>>
    /\ err' = e
    /\ panicked' = TRUE
    /\ pc' = "done"

ChunkAdd ==
    /\ pc = "chunk"
    /\ LET r == nextChunk(src, pos)
       IN  /\ ~r.panic
           /\ r.err = "nil"
           /\ state' = addChunk(state, r.chunk)
           /\ pos' = r.pos
    /\ UNCHANGED <<calls, code, pc, site, src, lineNum, topLevel, nonTopLevel, routed,
                   unit, tmpfile, execs, attempts, out, err, panicked>>

ChunkEOF ==
    /\ pc = "chunk"
    /\ LET r == nextChunk(src, pos)
       IN  /\ ~r.panic
           /\ r.err = "EOF"
           /\ pos' = r.pos
    /\ pc' = "lines"
    /\ lineNum' = 1
    /\ UNCHANGED <<calls, code, site, src, state, topLevel, nonTopLevel, routed,
                   unit, tmpfile, execs, attempts, out, err, panicked>>

ChunkPanic ==
    /\ pc = "chunk"
    /\ LET r == nextChunk(src, pos)
       IN  /\ r.panic
           /\ pos' = r.pos
           /\ Recovered(ErrNewline(r.pos))
    /\ UNCHANGED <<calls, code, site, src, state, lineNum, topLevel, nonTopLevel, routed,
                   unit, tmpfile, execs, attempts>>

(* Actions: partition's second loop, one line per step, and its return *)

LineStep ==
    /\ pc = "lines"
    /\ lineNum <= state.lineNum
    /\ LET r == processLine(lineNum, state)
           l == IF lineNum \in DOMAIN state.chunks
                THEN TrimLeft(extractTxt(state.chunks[lineNum]), {SP, TAB})
                ELSE <<>>
       IN  /\ state' = r.state
           /\ IF r.state.isTopLevel
              THEN /\ topLevel' = addLine(lineNum, topLevel, r.retLine)
                   /\ nonTopLevel' = nonTopLevel
              ELSE /\ nonTopLevel' = addLine(lineNum, nonTopLevel, r.retLine)
                   /\ topLevel' = topLevel
           /\ routed' = Append(routed,
                  [top |-> topLevel' # topLevel,
                   body |-> nonTopLevel' # nonTopLevel,
                   before |-> state.brackCount,
                   after |-> r.state.brackCount,
                   decl |-> IsDecl(l),
                   text |-> l,
                   line |-> r.retLine,
                   directive |-> Len(topLevel') + Len(nonTopLevel')
                                   > Len(topLevel) + Len(nonTopLevel) + Len(r.retLine)])
    /\ lineNum' = lineNum + 1
    /\ UNCHANGED <<calls, code, pc, site, src, pos, unit, tmpfile, execs, attempts,
                   out, err, panicked>>

PartitionReturn ==
    /\ pc = "lines"
    /\ lineNum > state.lineNum
    /\ ~(state.brackCount > 0)
    /\ pc' = "build"
    /\ UNCHANGED <<calls, code, site, src, pos, state, lineNum, topLevel, nonTopLevel,
                   routed, unit, tmpfile, execs, attempts, out, err, panicked, calls>>

PartitionPanic ==
    /\ pc = "lines"
    /\ lineNum > state.lineNum
    /\ state.brackCount > 0
    /\ Recovered(ErrBracket(state.brackOpenAt, state.brackCount))
    /\ UNCHANGED <<calls, code, site, src, pos, state, lineNum, topLevel, nonTopLevel,
                   routed, unit, tmpfile, execs, attempts>>

---------------------------------------------------------------------------
(* The chunker alone: partition's first loop over every short input *)

InitChunk ==
    /\ code \in ChunkInputs
    /\ pc = "chunk"
    /\ AtPartition(code)

NextChunk ==
    \/ ChunkAdd
    \/ ChunkEOF
    \/ ChunkPanic

SpecChunk ==
    InitChunk /\ [][NextChunk]_vars

---------------------------------------------------------------------------
(* The chunk loop run to its end: it does nothing else than call nextChunk again *)

MaxProgressLen == 3

ProgressInputs ==
    Strings(ChunkAlphabet, MaxProgressLen)

InitProgress ==
    /\ code \in ProgressInputs
    /\ pc = "chunk"
    /\ AtPartition(code)

SpecProgress ==
    InitProgress /\ [][NextChunk]_vars /\ WF_vars(NextChunk)

---------------------------------------------------------------------------
(* The chunker over longer inputs made of comment characters *)

MaxCommentLen == 6

CommentAlphabet ==
    {"/", "*", NL, "a"}

CommentInputs ==
    Strings(CommentAlphabet, MaxCommentLen)

InitComment ==
    /\ code \in CommentInputs
    /\ pc = "chunk"
    /\ AtPartition(code)

NextComment ==
    \/ ChunkAdd
    \/ ChunkEOF

SpecComment ==
    InitComment /\ [][NextComment]_vars

---------------------------------------------------------------------------
(* partition alone, over every input of a few lines *)

MaxLines == 4

PartLines ==
    { <<"f","u","n","c"," ","{",NL>>,
      <<"x",NL>>,
      <<"}",NL>>,
      <<"x","{",NL>>,
      <<"(",NL>>,
      <<")",NL>>,
      <<"x">> }

PartInputs ==
    { Concat(ls) : ls \in Strings(PartLines, MaxLines) }

InitPartition ==
    /\ code \in PartInputs
    /\ pc = "chunk"
    /\ AtPartition(code)

NextPartition ==
    \/ ChunkAdd
    \/ ChunkEOF
    \/ LineStep
    \/ PartitionReturn
    \/ PartitionPanic

SpecPartition ==
    InitPartition /\ [][NextPartition]_vars

---------------------------------------------------------------------------
(* partition over lines that hold literals and comments *)

MaxFrags == 4

\* pieces of lines: a declaration keyword, a line end, a slash, a raw literal that
\* spans three lines and holds a qualifier, a keyword and a bracket, an opening
\* bracket, a package qualifier, the two quotes, a backslash
LexFrags ==
    { <<"t","y","p","e"," ">>,
      <<NL>>,
      <<"/">>,
      <<BQ,"o","s",".",NL,NL,"t","y","p","e"," ","{",BQ>>,
      <<"{">>,
      <<"o","s",".">>,
      <<DQ>>,
      <<SQ>>,
      <<BS>> }

LexInputs ==
    { Concat(fs) : fs \in Strings(LexFrags, MaxFrags) }

InitLex ==
    /\ code \in LexInputs
    /\ pc = "chunk"
    /\ AtPartition(code)

NextLex ==
    \/ ChunkAdd
    \/ ChunkEOF
    \/ ChunkPanic
    \/ LineStep
    \/ PartitionReturn
    \/ PartitionPanic

SpecLex ==
    InitLex /\ [][NextLex]_vars

---------------------------------------------------------------------------
(* Eval: the package test, alias expansion, assembly *)

\* the offset of the first character at or after offset i that is not in set
RECURSIVE SkipWhile(_, _, _)
SkipWhile(s, i, set) ==
    IF i < Len(s) /\ s[i + 1] \in set THEN SkipWhile(s, i + 1, set) ELSE i

\* the offset of the end of the line that holds offset i
RECURSIVE LineEnd(_, _)
LineEnd(s, i) ==
    IF i < Len(s) /\ s[i + 1] # NL THEN LineEnd(s, i + 1) ELSE i

Kpackage == <<"p","a","c","k","a","g","e"," ">>

\* regexp.MatchString(`^\s*package `, code)
HasPackageDecl(c) ==
    HasPrefix(SubSeq(c, SkipWhile(c, 0, ReSpace) + 1, Len(c)), Kpackage)

\* a match of (?m)^\s*L +([^\s=:(].*)$ that starts at offset i, L the alias letter:
\* where its group starts and where it ends
AliasMatch(s, i, letter) ==
    LET j == SkipWhile(s, i, ReSpace)
        k == SkipWhile(s, j + 1, {SP})
    IN  [ok |-> /\ (i = 0 \/ s[i] = NL)
                /\ j < Len(s) /\ s[j + 1] = letter
                /\ k > j + 1
                /\ k < Len(s) /\ s[k + 1] \notin (ReSpace \cup {"=", ":", "("}),
         from |-> k + 1,
         to |-> LineEnd(s, k)]

\* r.ReplaceAllString(code, "__L($1)")
RECURSIVE ReplaceAlias(_, _, _)
ReplaceAlias(s, i, letter) ==
    IF i >= Len(s) THEN <<>>
    ELSE LET m == AliasMatch(s, i, letter)
         IN  IF m.ok
             THEN <<"_", "_", letter, "(">> \o SubSeq(s, m.from, m.to) \o <<")">>
                  \o ReplaceAlias(s, m.to, letter)
             ELSE <<s[i + 1]>> \o ReplaceAlias(s, i + 1, letter)

expandAliases(c) ==
    ReplaceAlias(ReplaceAlias(c, 0, "p"), 0, "t")

\* the text run is given: either the caller's code as it is, or the template of
\* buildMain filled with the import clauses, topLevel and nonTopLevel
\* the pass-through with the aliases expanded first
PassThroughExpanded(c) ==
    [wrapped |-> FALSE, imports |-> {}, clauses |-> NoClauses, topLevel |-> <<>>,
     main |-> <<>>, raw |-> expandAliases(c)]

PassThrough(c) ==
    [wrapped |-> FALSE, imports |-> {}, clauses |-> NoClauses, topLevel |-> <<>>,
     main |-> <<>>, raw |-> c]

\* lines 413-416 write one import clause for each key of the map
buildMain(top, nonTop, pkgsToImport) ==
    [wrapped |-> TRUE, imports |-> pkgsToImport,
     clauses |-> [k \in pkgsToImport |-> 1], topLevel |-> top,
     main |-> nonTop, raw |-> <<>>]

Pfmt == <<"f","m","t">>

---------------------------------------------------------------------------
(* run: what "go run" prints, and how run turns it into (output, err) *)

\* One line of the combined output, as strings.Split(out, "\n") yields it.  k is the
\* message, a the package name in it, n = 1 when the line starts with a position
\* of the form :N[file:M]: (which errPat matches), m = 1 once errPat rewrote it.
Banner == Piece("# command-line-arguments", <<>>, 0, 0)
EmptyLine == Piece("", <<>>, 0, 0)
NewlinePiece == Piece("\n", <<>>, 0, 0)
Redeclared(name) == Piece(" redeclared as imported package name", name, 1, 0)
NotUsed(name) == Piece("imported and not used: ", name, 1, 0)

DiagLines ==
    { Banner, EmptyLine,
      Redeclared(Pfmt), Redeclared(<<"r","a","n","d">>), NotUsed(<<"o","s">>) }

MaxOutLines == 2

Outputs ==
    UNION { [1..k -> DiagLines] : k \in 1..MaxOutLines }

\* string(out): the lines joined by newlines
RECURSIVE JoinLines(_)
JoinLines(lines) ==
    IF lines = <<>> THEN <<>>
    ELSE (IF Head(lines) = EmptyLine THEN <<>> ELSE <<Head(lines)>>)
         \o (IF Len(lines) > 1 THEN <<NewlinePiece>> ELSE <<>>)
         \o JoinLines(Tail(lines))

\* lines 380-386: drop the banner, rewrite the position of the lines errPat matches
RECURSIVE translate(_)
translate(lines) ==
    IF lines = <<>> THEN <<>>
    ELSE LET e == Head(lines)
         IN  (IF e = Banner THEN <<>>
              ELSE IF e.n = 1 THEN <<[e EXCEPT !.m = 1], NewlinePiece>>
              ELSE IF e = EmptyLine THEN <<>>
              ELSE <<e>>)
             \o translate(Tail(lines))

\* the longest run of word characters that ends the name
RECURSIVE TrailingWord(_)
TrailingWord(name) ==
    IF name # <<>> /\ name[Len(name)] \in WordChars
    THEN Append(TrailingWord(SubSeq(name, 1, Len(name) - 1)), name[Len(name)])
    ELSE <<>>

\* the package names r.FindAllStringSubmatch(err, -1) yields, for
\* r = (\w+) redeclared as imported package name|imported and not used: "(\w+)"
RepairMatches(e) ==
    { TrailingWord(e[i].a) :
        i \in { n \in 1..Len(e) :
                  /\ e[n].k = " redeclared as imported package name"
                  /\ TrailingWord(e[n].a) # <<>> } }
    \cup
    { e[i].a :
        i \in { n \in 1..Len(e) :
                  /\ e[n].k = "imported and not used: "
                  /\ e[n].a # <<>>
                  /\ \A c \in 1..Len(e[n].a) : e[n].a[c] \in WordChars } }

\* repairImports that never deletes the import of fmt
repairImportsKeepFmt(e, pkgsToImport) ==
    [pkgsToImport |-> pkgsToImport \ (RepairMatches(e) \ {Pfmt}),
     dupsDetected |-> RepairMatches(e) \cap pkgsToImport # {}]

repairImports(e, pkgsToImport) ==
    [pkgsToImport |-> pkgsToImport \ RepairMatches(e),
     dupsDetected |-> RepairMatches(e) \cap pkgsToImport # {}]

---------------------------------------------------------------------------
(* Actions: Eval, buildAndExec, run *)

EvalPassThrough ==
    /\ pc = "start"
    /\ HasPackageDecl(code)
    /\ unit' = PassThrough(code)
    /\ site' = "passthrough"
    /\ attempts' = attempts + 1
    /\ pc' = "save"
    /\ UNCHANGED <<calls, code, src, pos, state, lineNum, topLevel, nonTopLevel, routed,
                   tmpfile, execs, out, err, panicked>>

EvalPartition ==
    /\ pc = "start"
    /\ ~HasPackageDecl(code)
    /\ src' = expandAliases(code)
    /\ pc' = "chunk"
    /\ UNCHANGED <<calls, code, site, pos, state, lineNum, topLevel, nonTopLevel, routed,
                   unit, tmpfile, execs, attempts, out, err, panicked>>

BuildAndExec ==
    /\ pc = "build"
    /\ state' = [state EXCEPT !.pkgsToImport = state.pkgsToImport \cup {Pfmt}]
    /\ unit' = buildMain(topLevel, nonTopLevel, state'.pkgsToImport)
    /\ site' = "first"
    /\ attempts' = attempts + 1
    /\ pc' = "save"
    /\ UNCHANGED <<calls, code, src, pos, lineNum, topLevel, nonTopLevel, routed,
                   tmpfile, execs, out, err, panicked>>

Save ==
    /\ pc = "save"
    /\ tmpfile' = unit
    /\ pc' = "exec"
    /\ UNCHANGED <<calls, code, site, src, pos, state, lineNum, topLevel, nonTopLevel,
                   routed, unit, execs, attempts, out, err, panicked>>

SaveFail ==
    /\ pc = "save"
    /\ Recovered(ErrOpenFile)
    /\ UNCHANGED <<calls, code, site, src, pos, state, lineNum, topLevel, nonTopLevel,
                   routed, unit, tmpfile, execs, attempts>>

\* lines 376-391: "go run" on the file, and the pair run returns
runResult(ok, lines) ==
    IF ok THEN [out |-> JoinLines(lines), err |-> <<>>]
    ELSE [out |-> <<>>, err |-> translate(lines)]

Exec ==
    /\ pc = "exec"
    /\ \E ok \in BOOLEAN, lines \in Outputs :
          /\ out' = runResult(ok, lines).out
          /\ err' = runResult(ok, lines).err
          /\ execs' = Append(execs, [unit |-> tmpfile, ok |-> ok,
                                     out |-> out', err |-> err'])
    /\ pc' = "ran"
    /\ UNCHANGED <<calls, code, site, src, pos, state, lineNum, topLevel, nonTopLevel,
                   routed, unit, tmpfile, attempts, panicked>>

\* a retry after every failed attempt, not only after the first
retriesAgain(callSite, e, pkgsToImport) ==
    /\ e # <<>>
    /\ repairImports(e, pkgsToImport).dupsDetected

\* lines 340-341: whether buildAndExec runs again
retries(callSite, e, pkgsToImport) ==
    /\ callSite = "first"
    /\ e # <<>>
    /\ repairImports(e, pkgsToImport).dupsDetected

Retry ==
    /\ pc = "ran"
    /\ retries(site, err, state.pkgsToImport)
    /\ state' = [state EXCEPT
                    !.pkgsToImport = repairImports(err, state.pkgsToImport).pkgsToImport]
    /\ unit' = buildMain(topLevel, nonTopLevel, state'.pkgsToImport)
    /\ site' = "retry"
    /\ attempts' = attempts + 1
    /\ pc' = "save"
    /\ UNCHANGED <<calls, code, src, pos, lineNum, topLevel, nonTopLevel, routed,
                   tmpfile, execs, out, err, panicked>>

Return ==
    /\ pc = "ran"
    /\ ~retries(site, err, state.pkgsToImport)
    /\ pc' = "done"
    /\ UNCHANGED <<calls, code, site, src, pos, state, lineNum, topLevel, nonTopLevel,
                   routed, unit, tmpfile, execs, attempts, out, err, panicked, calls>>

---------------------------------------------------------------------------
(* One invocation of Eval on each of a set of snippets *)

EvalInputs ==
    { <<"x">>,
      <<"o","s",".","a",NL>>,
      <<"r","a","n","d",".","a",NL,"o","s",".","a">>,
      <<"o","s",".","a",NL,"o","s",".","a"," ","o","s",".","a">>,
      <<"p"," ","x",NL>>,
      <<"t","y","p","e"," ","T"," ","{",NL,"x",NL,"}",NL,"p"," ","x">>,
      <<"p","a","c","k","a","g","e"," ","x",NL>>,
      <<NL," ","p","a","c","k","a","g","e"," ","p",NL,"p"," ","o","s",".","a","{">>,
      <<DQ,"a",NL,DQ>>,
      <<"x","{",NL,"x",NL>>,
      <<"x","/",DQ,NL,DQ>> }

Init ==
    /\ code \in EvalInputs
    /\ pc = "start"
    /\ AtPartition(<<>>)

Next ==
    \/ EvalPassThrough
    \/ EvalPartition
    \/ ChunkAdd
    \/ ChunkEOF
    \/ ChunkPanic
    \/ LineStep
    \/ PartitionReturn
    \/ PartitionPanic
    \/ BuildAndExec
    \/ Save
    \/ SaveFail
    \/ Exec
    \/ Retry
    \/ Return

Spec ==
    Init /\ [][Next]_vars

---------------------------------------------------------------------------
(* Derived views of the state, used to state the properties *)

\* every chunk filed so far, in the order of the line numbers
RECURSIVE ChunksFrom(_, _)
ChunksFrom(st, n) ==
    IF n > st.lineNum THEN <<>>
    ELSE (IF n \in DOMAIN st.chunks THEN st.chunks[n] ELSE <<>>)
         \o ChunksFrom(st, n + 1)

AllChunks ==
    ChunksFrom(state, 1)

\* the lines of a text, each without its newline
RECURSIVE SplitLines(_, _)
SplitLines(s, cur) ==
    IF s = <<>> THEN <<cur>>
    ELSE IF Head(s) = NL THEN <<cur>> \o SplitLines(Tail(s), <<>>)
    ELSE SplitLines(Tail(s), Append(cur, Head(s)))

Closer(c) ==
    IF c = "{" THEN "}" ELSE ")"

\* a stack discipline over the lines: a closer at the start of a line must match the
\* innermost open bracket, an opener at the end of a line is pushed
RECURSIVE Nesting(_, _)
Nesting(lines, stack) ==
    IF lines = <<>> THEN [ok |-> TRUE, stack |-> stack]
    ELSE LET t == TrimSpace(Head(lines))
             closes == t # <<>> /\ t[1] \in {"}", ")"}
             opens == t # <<>> /\ t[Len(t)] \in {"{", "("}
             popped == IF closes THEN Tail(stack) ELSE stack
         IN  IF closes /\ (stack = <<>> \/ Head(stack) # t[1])
             THEN [ok |-> FALSE, stack |-> stack]
             ELSE Nesting(Tail(lines),
                          IF opens THEN <<Closer(t[Len(t)])>> \o popped ELSE popped)

WellNested(s) ==
    LET r == Nesting(SplitLines(s, <<>>), <<>>)
    IN  r.ok /\ r.stack = <<>>

\* the line on which the outermost bracket still open after the last processed line
\* was opened, 0 if none is open
OpenedAt ==
    IF routed = <<>> \/ routed[Len(routed)].after = 0 THEN 0
    ELSE CHOOSE i \in 1..Len(routed) :
            /\ routed[i].before = 0
            /\ \A k \in i..Len(routed) : routed[k].after > 0

\* Whether a text holds a raw newline inside a single- or double-quoted literal,
\* by the lexical rules of the chunker's contract: a comment or a literal starts
\* wherever plain text meets "//", "/*" or a quote, and a backslash escapes the
\* next character of a quoted literal.  mode is the kind of span index i is in.
RECURSIVE NewlineInQuotedFrom(_, _, _)
NewlineInQuotedFrom(s, i, mode) ==
    IF i > Len(s) THEN FALSE
    ELSE LET c == s[i]
             n == IF i < Len(s) THEN s[i + 1] ELSE NoRune
         IN  CASE mode = "text" ->
                    IF c = "/" /\ n = "/" THEN NewlineInQuotedFrom(s, i + 2, "line")
                    ELSE IF c = "/" /\ n = "*" THEN NewlineInQuotedFrom(s, i + 2, "block")
                    ELSE IF c \in {DQ, SQ} THEN NewlineInQuotedFrom(s, i + 1, c)
                    ELSE IF c = BQ THEN NewlineInQuotedFrom(s, i + 1, "raw")
                    ELSE NewlineInQuotedFrom(s, i + 1, "text")
               [] mode = "line" ->
                    NewlineInQuotedFrom(s, i + 1, IF c = NL THEN "text" ELSE "line")
               [] mode = "block" ->
                    IF c = "*" /\ n = "/" THEN NewlineInQuotedFrom(s, i + 2, "text")
                    ELSE NewlineInQuotedFrom(s, i + 1, "block")
               [] mode = "raw" ->
                    NewlineInQuotedFrom(s, i + 1, IF c = BQ THEN "text" ELSE "raw")
               [] OTHER ->
                    IF c = NL THEN TRUE
                    ELSE IF c = BS THEN NewlineInQuotedFrom(s, i + 2, mode)
                    ELSE IF c = mode THEN NewlineInQuotedFrom(s, i + 1, "text")
                    ELSE NewlineInQuotedFrom(s, i + 1, mode)

NewlineInQuoted(s) ==
    NewlineInQuotedFrom(s, 1, "text")

LastExec ==
    execs[Len(execs)]

---------------------------------------------------------------------------
(* Properties *)

\* C1: once end-of-input is signalled without the newline-in-literal panic, the
\* texts of the chunks returned, concatenated in order, are the input; and while
\* chunks are still being read they are the input up to the cursor.
C1_RoundTrip ==
    /\ pc = "chunk" => ChunkTexts(AllChunks) = SubSeq(src, 1, pos)
    /\ pc = "lines" => ChunkTexts(AllChunks) = src

\* a text chunk cut short before a comment, the comment after it, end of input
C1_Witness ==
    /\ pc = "lines"
    /\ Len(src) = MaxLen
    /\ Len(AllChunks) >= 2
    /\ AllChunks[1].kind = KTEXT
    /\ AllChunks[2].kind = KCOMMENT
    /\ ChunkTexts(AllChunks) = src

\* C2: a line processed at depth 0 decides the buffer for itself and for every
\* following line up to and including the one that returns the depth to 0: all of
\* them go to topLevel and none to the body when it starts with func, type or
\* import, and all of them go to the body and none to topLevel otherwise.
C2_BlockRouting ==
    \A i \in 1..Len(routed) : \A j \in i..Len(routed) :
        (/\ routed[i].before = 0
         /\ routed[i].text # <<>>
         /\ \A k \in i..(j - 1) : routed[k].after > 0)
        => IF routed[i].decl
           THEN ~routed[j].body /\ (routed[j].line # <<>> => routed[j].top)
           ELSE ~routed[j].top /\ (routed[j].line # <<>> => routed[j].body)

\* a func block of three lines went to topLevel, closing line included, and the
\* statement after it went to the body
C2_Witness ==
    /\ pc = "build"
    /\ Len(routed) >= 4
    /\ routed[1].decl /\ routed[1].before = 0 /\ routed[1].after = 1
    /\ routed[2].after = 1 /\ routed[3].after = 0
    /\ routed[1].top /\ routed[2].top /\ routed[3].top
    /\ routed[4].body /\ routed[4].text # <<>>

\* C3 (as claimed): when a bracket is still open after the last line, partition
\* fails with the "Bracket or paren not closed" error and the line it reports is
\* the line on which the outermost still-open bracket was opened.
C3_UnclosedReportsOpeningLine ==
    (pc = "done" /\ lineNum > state.lineNum /\ OpenedAt > 0)
    => /\ panicked
       /\ err = ErrBracket(OpenedAt, state.brackCount)

\* C4 (as claimed): an input whose line-ending openers and line-starting closers
\* are correctly nested leaves depth 0 and raises no unclosed-bracket error.
C4_BalancedEndsAtZero ==
    (pc \in {"build", "done"} /\ WellNested(src))
    => /\ ~panicked
       /\ state.brackCount = 0

\* C10 (as claimed): every chunk's numNL is the number of newlines in its text.
C10_NewlineAccounting ==
    \A k \in 1..Len(AllChunks) :
        AllChunks[k].numNL = CountOf(NL, AllChunks[k].text)

\* C5: run is called at most twice and "go run" is started at most twice; run is
\* called a second time exactly when the first attempt failed and repairImports
\* removed an import, and then on the unit without the removed imports; what Eval
\* returns is what the last attempt returned.
C5_BoundedRetry ==
    /\ attempts <= 2
    /\ Len(execs) <= attempts
    /\ attempts = 2 =>
          /\ site = "retry"
          /\ ~execs[1].ok
          /\ RepairMatches(execs[1].err) \cap execs[1].unit.imports # {}
          /\ unit.imports = execs[1].unit.imports \ RepairMatches(execs[1].err)
    /\ (pc = "done" /\ site = "first" /\ execs # <<>>) =>
          \/ execs[1].ok
          \/ RepairMatches(execs[1].err) \cap execs[1].unit.imports = {}
    /\ (pc = "done" /\ ~panicked) =>
          /\ execs # <<>>
          /\ Len(execs) = attempts
          /\ out = LastExec.out
          /\ err = LastExec.err

\* the second attempt failed with a diagnostic that names an import still in the
\* set; Eval returned it and did not run a third time
C5_Witness ==
    /\ pc = "done"
    /\ attempts = 2
    /\ Len(execs) = 2
    /\ ~execs[2].ok
    /\ RepairMatches(execs[2].err) \cap execs[2].unit.imports # {}
    /\ err = execs[2].err

\* C6 (as claimed): when the first attempt's diagnostics name, in one of the two
\* shapes, the short name of a package of the table whose import is in the set,
\* a retry is made and its unit does not import that package.
C6_RepairRemovesNamedImport ==
    (pc = "done" /\ site \in {"first", "retry"} /\ execs # <<>> /\ ~execs[1].ok)
    => \A short \in RepairMatches(execs[1].err) \cap DOMAIN builtinPkgs :
          builtinPkgs[short] \in execs[1].unit.imports
          => /\ attempts = 2
             /\ builtinPkgs[short] \notin unit.imports

\* C7 (as claimed): Eval never returns both texts non-empty, and err is non-empty
\* exactly when a panic was recovered or the last attempt exited with an error.
C7_OutputContract ==
    pc = "done" =>
        /\ ~(out # <<>> /\ err # <<>>)
        /\ (err # <<>>) <=> (panicked \/ (execs # <<>> /\ ~LastExec.ok))

\* C8 (as claimed): an input without a package declaration that holds a raw newline
\* inside a quoted literal, or that leaves a bracket open, makes Eval return "" and
\* a non-empty err without ever writing the file or starting "go run".
C8_MalformedAborts ==
    (/\ pc = "done"
     /\ ~HasPackageDecl(code)
     /\ \/ NewlineInQuoted(code)
        \/ (lineNum > state.lineNum /\ state.brackCount > 0))
    => /\ out = <<>>
       /\ err # <<>>
       /\ panicked
       /\ attempts = 0
       /\ execs = <<>>
       /\ tmpfile = NoUnit

\* C9: for an input that begins with a package declaration, nothing is expanded,
\* chunked or partitioned; run is called once, on the input as it is; "go run" is
\* started at most once, on that text; and what it returns is what Eval returns.
C9_PassThrough ==
    (pc # "start" /\ HasPackageDecl(code)) =>
        /\ site = "passthrough"
        /\ ~unit.wrapped /\ unit.raw = code /\ unit.imports = {}
        /\ unit.topLevel = <<>> /\ unit.main = <<>>
        /\ src = <<>> /\ state = NewState /\ topLevel = <<>> /\ nonTopLevel = <<>>
        /\ attempts = 1
        /\ Len(execs) <= 1
        /\ \A i \in 1..Len(execs) : ~execs[i].unit.wrapped /\ execs[i].unit.raw = code
        /\ (pc = "done" /\ ~panicked) =>
              /\ Len(execs) = 1
              /\ out = execs[1].out
              /\ err = execs[1].err

\* a package-declared input that holds an alias line failed with a diagnostic of a
\* repairable shape, and Eval returned after that one attempt
C9_Witness ==
    /\ pc = "done"
    /\ site = "passthrough"
    /\ expandAliases(code) # code
    /\ Len(execs) = 1
    /\ ~execs[1].ok
    /\ RepairMatches(err) # {}
    /\ attempts = 1

---------------------------------------------------------------------------
(* Where the emitted lines lie in the text given to partition *)

\* the text of the "//line :N" directives partition can have written
Directives ==
    { LineDirective(n)[1] : n \in 1..(state.lineNum + 1) }

\* the number of characters partition emitted for the lines before line n
RECURSIVE EmittedBefore(_)
EmittedBefore(n) ==
    IF n <= 1 THEN 0 ELSE EmittedBefore(n - 1) + Len(routed[n - 1].line)

\* the number of the line of s on which the character at index i lies
LineOf(s, i) ==
    1 + CountOf(NL, SubSeq(s, 1, i - 1))

\* C11 (as claimed): in both buffers a directive stands at the start of the buffer
\* or right after a newline, and the text that follows the directive written for
\* line N begins on line N of the text given to partition.
C11_LineProvenance ==
    /\ \A i \in DOMAIN topLevel :
          topLevel[i] \in Directives => (i = 1 \/ topLevel[i - 1] = NL)
    /\ \A i \in DOMAIN nonTopLevel :
          nonTopLevel[i] \in Directives => (i = 1 \/ nonTopLevel[i - 1] = NL)
    /\ \A n \in 1..Len(routed) :
          (routed[n].directive /\ routed[n].line # <<>>)
          => LineOf(src, EmittedBefore(n) + 1) = n

---------------------------------------------------------------------------
(* The qualifiers the TEXT chunks hold *)

\* the qualifiers pkgPat finds in the TEXT chunk c, in order
QualifiersOf(c) ==
    IF c.kind = KTEXT THEN FindAllPkg(c.text, 1) ELSE <<>>

\* how often the TEXT chunks filed under line n refer to the qualifier q
RECURSIVE ReferencesIn(_, _)
ReferencesIn(chunks, q) ==
    IF chunks = <<>> THEN 0
    ELSE Len(SelectSeq(QualifiersOf(Head(chunks)), LAMBDA w : w = q))
         + ReferencesIn(Tail(chunks), q)

\* the lines that refer to the qualifier q
LinesReferring(q) ==
    { n \in DOMAIN state.chunks : ReferencesIn(state.chunks[n], q) > 0 }

\* the paths of the known qualifiers the TEXT chunks refer to
ReferencedPaths ==
    { builtinPkgs[q] : q \in { w \in DOMAIN builtinPkgs : LinesReferring(w) # {} } }

\* C12: after partition the import set is the set of the paths of the known
\* qualifiers the TEXT chunks refer to, however often and on however many lines;
\* the unit built from it holds exactly one import clause for each of them (and
\* the one for fmt); inferring once more from the same chunks changes nothing.
C12_ImportIdempotence ==
    /\ pc = "build" => state.pkgsToImport = ReferencedPaths
    /\ (pc = "build" \/ site = "first") =>
          InferAll(AllChunks, state.pkgsToImport) = state.pkgsToImport
    /\ site = "first" =>
          /\ DOMAIN unit.clauses = ReferencedPaths \cup {Pfmt}
          /\ \A path \in DOMAIN unit.clauses : unit.clauses[path] = 1

\* three references to os on two lines, one import clause for it in the unit
C12_Witness ==
    /\ site = "first"
    /\ pc = "exec"
    /\ Cardinality(LinesReferring(<<"o","s">>)) = 2
    /\ ReferencesIn(AllChunks, <<"o","s">>) = 3
    /\ state.pkgsToImport = {<<"o","s">>, Pfmt}
    /\ tmpfile.clauses[<<"o","s">>] = 1

---------------------------------------------------------------------------
(* The comments and literals of a text by the lexical rules of the chunker's
   contract, and where the chunks lie in the text *)

Token(kind, from, to, closed) ==
    [kind |-> kind, from |-> from, to |-> to, closed |-> closed]

\* The comments and literals of s from index i on, in order.  mode is "text"
\* between them, "line", "block" or "raw" inside a comment or a raw literal, and
\* the quote character inside a quoted literal; from is where the open one began.
RECURSIVE RefTokens(_, _, _, _)
RefTokens(s, i, mode, from) ==
    IF i > Len(s)
    THEN IF mode = "text" THEN <<>> ELSE <<Token(mode, from, Len(s), FALSE)>>
    ELSE LET c == s[i]
             n == IF i < Len(s) THEN s[i + 1] ELSE NoRune
         IN  CASE mode = "text" ->
                    IF c = "/" /\ n = "/" THEN RefTokens(s, i + 2, "line", i)
                    ELSE IF c = "/" /\ n = "*" THEN RefTokens(s, i + 2, "block", i)
                    ELSE IF c \in {DQ, SQ} THEN RefTokens(s, i + 1, c, i)
                    ELSE IF c = BQ THEN RefTokens(s, i + 1, "raw", i)
                    ELSE RefTokens(s, i + 1, "text", 0)
               [] mode = "line" ->
                    IF c = NL
                    THEN <<Token(mode, from, i, TRUE)>> \o RefTokens(s, i + 1, "text", 0)
                    ELSE RefTokens(s, i + 1, mode, from)
               [] mode = "block" ->
                    IF c = "*" /\ n = "/"
                    THEN <<Token(mode, from, i + 1, TRUE)>>
                         \o RefTokens(s, i + 2, "text", 0)
                    ELSE RefTokens(s, i + 1, mode, from)
               [] mode = "raw" ->
                    IF c = BQ
                    THEN <<Token(mode, from, i, TRUE)>> \o RefTokens(s, i + 1, "text", 0)
                    ELSE RefTokens(s, i + 1, mode, from)
               [] OTHER ->
                    IF c = BS /\ i < Len(s) THEN RefTokens(s, i + 2, mode, from)
                    ELSE IF c = mode
                    THEN <<Token(mode, from, i, TRUE)>> \o RefTokens(s, i + 1, "text", 0)
                    ELSE RefTokens(s, i + 1, mode, from)

Tokens(s) ==
    RefTokens(s, 1, "text", 0)

\* for each index of s, whether it lies outside every comment and literal
Plain(s) ==
    LET toks == Tokens(s)
    IN  [i \in 1..Len(s) |->
            \A k \in 1..Len(toks) : i < toks[k].from \/ i > toks[k].to]

\* the lines of s from index i on, newline included, without the characters that
\* lie inside a comment or a literal; plain is Plain(s), cur the line begun
RECURSIVE PlainLinesFrom(_, _, _, _)
PlainLinesFrom(s, plain, i, cur) ==
    IF i > Len(s) THEN <<cur>>
    ELSE LET next == IF plain[i] THEN Append(cur, s[i]) ELSE cur
         IN  IF s[i] = NL
             THEN <<next>> \o PlainLinesFrom(s, plain, i + 1, <<>>)
             ELSE PlainLinesFrom(s, plain, i + 1, next)

PlainLines(s) ==
    PlainLinesFrom(s, Plain(s), 1, <<>>)

\* the index in the text at which each chunk of a sequence starts, the first at `at'
RECURSIVE StartsOf(_, _)
StartsOf(chunks, at) ==
    IF chunks = <<>> THEN <<>>
    ELSE <<at>> \o StartsOf(Tail(chunks), at + Len(Head(chunks).text))

\* the line under which addChunk filed each chunk of ChunksFrom(st, n)
RECURSIVE FiledFrom(_, _)
FiledFrom(st, n) ==
    IF n > st.lineNum THEN <<>>
    ELSE (IF n \in DOMAIN st.chunks
          THEN [j \in 1..Len(st.chunks[n]) |-> n] ELSE <<>>)
         \o FiledFrom(st, n + 1)

FiledUnder ==
    FiledFrom(state, 1)

\* C13 (as claimed): every raw literal of the input that is closed is one STRING
\* chunk whose numNL is the number of newlines between its backticks; it is filed
\* under the line on which it starts, the chunk after it under the line on which
\* it closes; and on that line and every later one the text examined for
\* keywords and brackets is the line's text outside comments and literals.
C13_RawLiteralSpanningLines ==
    pc \in {"lines", "build"} =>
        LET toks == Tokens(src)
            chunks == AllChunks
            starts == StartsOf(chunks, 1)
            filed == FiledUnder
            plain == PlainLines(src)
        IN  \A t \in 1..Len(toks) :
                (toks[t].kind = "raw" /\ toks[t].closed) =>
                    /\ \E k \in 1..Len(chunks) :
                          /\ starts[k] = toks[t].from
                          /\ starts[k] + Len(chunks[k].text) - 1 = toks[t].to
                          /\ chunks[k].kind = KSTRING
                          /\ chunks[k].numNL = CountOf(NL, chunks[k].text)
                          /\ filed[k] = LineOf(src, toks[t].from)
                          /\ k < Len(chunks) => filed[k + 1] = LineOf(src, toks[t].to)
                    /\ \A n \in LineOf(src, toks[t].to)..Len(routed) :
                          /\ n <= Len(plain)
                          /\ routed[n].text = TrimLeft(plain[n], {SP, TAB})

---------------------------------------------------------------------------
(* The state of partition between lines *)

\* brackCount is never negative and is 0 exactly when no closer is awaited
DepthAndCloserAgree ==
    /\ state.brackCount >= 0
    /\ state.brackCount = 0 <=> state.closingCh = NoClosingCh

\* a step that takes closingCh or brackOpenAt back to its initial value is the
\* processing of a line that takes brackCount from above 0 to 0
ResetOnlyAtDepthZero ==
    (\/ state.closingCh # NoClosingCh /\ state'.closingCh = NoClosingCh
     \/ state.brackOpenAt # 0 /\ state'.brackOpenAt = 0)
    => /\ pc = "lines" /\ lineNum' = lineNum + 1
       /\ state.brackCount > 0
       /\ state'.brackCount = 0

\* C14: after every line brackCount >= 0, and brackCount = 0 exactly when
\* closingCh is ' '; closingCh and brackOpenAt are reset only by the line that
\* brings brackCount back to 0.
C14_PartitionStateInvariant ==
    []DepthAndCloserAgree /\ [][ResetOnlyAtDepthZero]_vars

\* two nested blocks were opened and closed: the first closer left the depth at 1
\* and the awaited closer in place, the second returned the state to "none open"
C14_Witness ==
    /\ pc = "build"
    /\ \E i \in 1..Len(routed) : \E j \in (i + 1)..Len(routed) :
          /\ routed[i].before = 2 /\ routed[i].after = 1
          /\ routed[j].before = 1 /\ routed[j].after = 0
    /\ state.brackCount = 0
    /\ state.closingCh = NoClosingCh
    /\ state.brackOpenAt = 0

---------------------------------------------------------------------------
(* The chunks nextChunk returns *)

\* C15 (as claimed): a TEXT chunk holds no quote and no backtick, and no newline
\* except as its last character.
C15_PlainTextBoundary ==
    \A k \in 1..Len(AllChunks) :
        AllChunks[k].kind = KTEXT =>
            \A i \in 1..Len(AllChunks[k].text) :
                /\ AllChunks[k].text[i] \notin {DQ, SQ, BQ}
                /\ AllChunks[k].text[i] = NL => i = Len(AllChunks[k].text)

\* the indexes of s, from index i on, at which a "*/" starts
ClosersFrom(s, i) ==
    { j \in i..(Len(s) - 1) : s[j] = "*" /\ s[j + 1] = "/" }

Min(S) ==
    CHOOSE x \in S : \A y \in S : x <= y

\* C16 (as claimed): a COMMENT chunk that starts with "/*" ends right after the
\* first "*/" that follows the opener, and at the end of the input when none does.
C16_CommentTermination ==
    LET chunks == AllChunks
        starts == StartsOf(chunks, 1)
    IN  \A k \in 1..Len(chunks) :
            (/\ chunks[k].kind = KCOMMENT
             /\ Len(chunks[k].text) >= 2
             /\ chunks[k].text[1] = "/"
             /\ chunks[k].text[2] = "*")
            => LET closers == ClosersFrom(src, starts[k] + 2)
               IN  starts[k] + Len(chunks[k].text) - 1
                     = IF closers = {} THEN Len(src) ELSE Min(closers) + 1

---------------------------------------------------------------------------
(* partition as a function of the text, and a text whose literals and comments
   hold no bracket, keyword or qualifier *)

\* lines 165-175: the state after the chunks of s from offset p on were added;
\* lineNum 0 stands for the newline-in-literal panic
RECURSIVE chunkLoop(_, _, _)
chunkLoop(s, p, st) ==
    LET r == nextChunk(s, p)
    IN  IF r.panic THEN [st EXCEPT !.lineNum = 0]
        ELSE IF r.err = "EOF" THEN st
        ELSE chunkLoop(s, r.pos, addChunk(st, r.chunk))

\* lines 177-184: the state after the lines n..last were processed
RECURSIVE lineLoop(_, _, _)
lineLoop(n, last, st) ==
    IF n > last \/ n > st.lineNum THEN st
    ELSE lineLoop(n + 1, last, processLine(n, st).state)

\* the indexes between the delimiters of a comment or literal
Interior(t) ==
    IF t.kind = "line" THEN (t.from + 2)..(IF t.closed THEN t.to - 1 ELSE t.to)
    ELSE IF t.kind = "block" THEN (t.from + 2)..(IF t.closed THEN t.to - 2 ELSE t.to)
    ELSE (t.from + 1)..(IF t.closed THEN t.to - 1 ELSE t.to)

\* the characters brackets, keywords and qualified identifiers are made of
Structural ==
    WordChars \cup {".", SP, "{", "}", "(", ")"}

\* s with every bracket, word character, dot and blank that stands inside a
\* comment or literal replaced by a letter
Inert(s) ==
    LET toks == Tokens(s)
    IN  [i \in 1..Len(s) |->
            IF s[i] \in Structural /\ \E k \in 1..Len(toks) : i \in Interior(toks[k])
            THEN "a" ELSE s[i]]

\* C17 (as claimed): what stands inside literals and comments has no effect on
\* brackCount, closingCh, isTopLevel and the import set: after every line they
\* are what they are for the same text with the brackets, words, dots and
\* blanks inside every literal and comment replaced by letters.
C17_LiteralsAndCommentsInert ==
    (pc \in {"lines", "build"} /\ lineNum >= 1) =>
        LET ref == lineLoop(1, lineNum - 1, chunkLoop(Inert(src), 0, NewState))
        IN  /\ state.brackCount = ref.brackCount
            /\ state.closingCh = ref.closingCh
            /\ state.isTopLevel = ref.isTopLevel
            /\ state.pkgsToImport = ref.pkgsToImport

---------------------------------------------------------------------------
(* The import clauses of the units *)

\* the units buildMain has produced so far: the one last built, the one in the
\* file, and those "go run" was started on
WrappedUnits ==
    { u \in {unit, tmpfile} \cup { execs[i].unit : i \in 1..Len(execs) } : u.wrapped }

HasFmtClause(u) ==
    Pfmt \in DOMAIN u.clauses /\ u.clauses[Pfmt] = 1

\* C18 (as claimed): every unit buildMain produces, first attempt or retry, holds
\* an import clause for fmt, whatever the diagnostics of the first attempt name.
C18_AlwaysFmtImport ==
    \A u \in WrappedUnits : HasFmtClause(u)

\* C18 (amended): the unit of the first attempt always holds the import clause for
\* fmt; the unit of the retry holds it exactly when the diagnostics of the first
\* attempt did not name fmt in one of the two repairable shapes.
C18_FmtImportUnlessRepaired ==
    /\ (site = "first" /\ unit.wrapped) => HasFmtClause(unit)
    /\ \A i \in 1..Len(execs) :
          (i = 1 /\ execs[i].unit.wrapped) => HasFmtClause(execs[i].unit)
    /\ site = "retry" =>
          /\ execs # <<>>
          /\ HasFmtClause(unit) <=> Pfmt \notin RepairMatches(execs[1].err)
          /\ \A i \in 2..Len(execs) : execs[i].unit = unit

\* a retry after diagnostics that name os and not fmt: the unit of the retry was
\* run, without the import of os and with the one of fmt
C18_Witness ==
    /\ site = "retry"
    /\ Len(execs) = 2
    /\ RepairMatches(execs[1].err) = {<<"o","s">>}
    /\ <<"o","s">> \in DOMAIN execs[1].unit.clauses
    /\ <<"o","s">> \notin DOMAIN execs[2].unit.clauses
    /\ HasFmtClause(execs[2].unit)

---------------------------------------------------------------------------
(* Progress of the chunk loop *)

\* what the next call of nextChunk returns: data exactly when input is left, and
\* then a non-empty text and a cursor further on; end-of-input exactly when none
\* is left, and then no data
NextCallIsSound ==
    pc = "chunk" =>
        LET r == nextChunk(src, pos)
        IN  \/ r.panic
            \/ /\ r.err = "nil"
               /\ pos < Len(src)
               /\ r.chunk.text # <<>>
               /\ r.pos > pos
               /\ r.pos <= Len(src)
            \/ /\ r.err = "EOF"
               /\ pos = Len(src)
               /\ r.chunk = ZeroChunk

\* every chunk added so far carries text, and after end-of-input nothing is left
ChunksCarryData ==
    /\ \A k \in 1..Len(AllChunks) : AllChunks[k].text # <<>>
    /\ pc = "lines" => pos = Len(src)

\* a call that returns a chunk moves the cursor forward and adds that one chunk
CursorAdvances ==
    (pc = "chunk" /\ pc' = "chunk") =>
        /\ pos' > pos
        /\ Len(AllChunks') = Len(AllChunks) + 1

\* C19: every call of nextChunk that returns without error returns a non-empty
\* text and moves the cursor forward, also after a push-back; end-of-input is
\* returned only without data and only when no input is left; and the loop ends,
\* with end-of-input or with the newline-in-literal panic.
C19_ChunkerProgress ==
    /\ [](NextCallIsSound /\ ChunksCarryData)
    /\ [][CursorAdvances]_vars
    /\ <>(pc = "lines" \/ (pc = "done" /\ panicked))

\* a text chunk ended by the push-back of a quote, the literal after it, and
\* end-of-input once the whole input was returned
C19_Witness ==
    /\ pc = "lines"
    /\ pos = Len(src)
    /\ Len(src) = MaxProgressLen
    /\ Len(AllChunks) >= 2
    /\ AllChunks[1].kind = KTEXT
    /\ AllChunks[1].text[1] # "/"
    /\ AllChunks[2].kind = KSTRING

---------------------------------------------------------------------------
(* The two buffers read back *)

\* the line number a directive names
DirectiveNumber(e) ==
    CHOOSE n \in 1..(state.lineNum + 1) : LineDirective(n)[1] = e

\* the index of the first directive of buf after index i, Len(buf) + 1 if none
RECURSIVE NextDirective(_, _)
NextDirective(buf, i) ==
    IF i + 1 > Len(buf) \/ buf[i + 1] \in Directives THEN i + 1
    ELSE NextDirective(buf, i + 1)

\* a buffer cut at its directives, from the directive at index i on: the number
\* each directive names and the text between it and the next one
RECURSIVE Segments(_, _)
Segments(buf, i) ==
    IF i > Len(buf) THEN <<>>
    ELSE LET j == NextDirective(buf, i)
         IN  <<[n |-> DirectiveNumber(buf[i]), text |-> SubSeq(buf, i + 2, j - 1)]>>
             \o Segments(buf, j)

RECURSIVE SegmentTexts(_)
SegmentTexts(segs) ==
    IF segs = <<>> THEN <<>> ELSE Head(segs).text \o SegmentTexts(Tail(segs))

\* a buffer without its directives
Strip(buf) ==
    SegmentTexts(Segments(buf, 1))

\* the text that follows the directive for line n, empty if there is none
SegmentFor(segs, n) ==
    SegmentTexts(SelectSeq(segs, LAMBDA g : g.n = n))

\* the segments of the two buffers put together in the order of their line numbers
RECURSIVE MergeFrom(_, _, _)
MergeFrom(n, segsTop, segsBody) ==
    IF n > state.lineNum + 1 THEN <<>>
    ELSE SegmentFor(segsTop, n) \o SegmentFor(segsBody, n)
         \o MergeFrom(n + 1, segsTop, segsBody)

\* the texts of the chunks filed under the lines of the set S, from line n on
RECURSIVE TextOfLines(_, _)
TextOfLines(S, n) ==
    IF n > state.lineNum THEN <<>>
    ELSE (IF n \in S /\ n \in DOMAIN state.chunks
          THEN ChunkTexts(state.chunks[n]) ELSE <<>>)
         \o TextOfLines(S, n + 1)

\* C20 (as claimed): when partition returns normally, the two buffers without
\* their directives hold the chunks of the input, each once and verbatim, each
\* line's chunks in one of the two, in input order within each buffer; and the
\* texts that follow the directives, put together in the order of the line
\* numbers the directives name, are the text given to partition.
C20_PartitionLossless ==
    pc = "build" =>
        /\ \E T \in SUBSET (DOMAIN state.chunks) :
              /\ Strip(topLevel) = TextOfLines(T, 1)
              /\ Strip(nonTopLevel) = TextOfLines(DOMAIN state.chunks \ T, 1)
        /\ MergeFrom(1, Segments(topLevel, 1), Segments(nonTopLevel, 1)) = src

---------------------------------------------------------------------------
(* Several invocations of Eval side by side.  Each has its own locals, held
   in calls; all of them write and run the one file gore_eval.go. *)

\* lines 177-184: the buffers after the lines from n on were appended
RECURSIVE appendLines(_, _, _, _)
appendLines(n, st, top, nonTop) ==
    IF n > st.lineNum
    THEN [state |-> st, topLevel |-> top, nonTopLevel |-> nonTop]
    ELSE LET r == processLine(n, st)
         IN  IF r.state.isTopLevel
             THEN appendLines(n + 1, r.state, addLine(n, top, r.retLine), nonTop)
             ELSE appendLines(n + 1, r.state, top, addLine(n, nonTop, r.retLine))

\* lines 165-172: the cursor at which nextChunk returns the error partition
\* panics with
RECURSIVE panicAt(_, _)
panicAt(s, p) ==
    LET r == nextChunk(s, p)
    IN  IF r.panic \/ r.err = "EOF" THEN r.pos ELSE panicAt(s, r.pos)

\* partition as a function of its argument: the panic value, if it panics, or
\* else the three values it returns
partition(text) ==
    LET st == chunkLoop(text, 0, NewState)
        r == appendLines(1, st, <<>>, <<>>)
    IN  IF st.lineNum = 0
        THEN [panic |-> ErrNewline(panicAt(text, 0)), topLevel |-> <<>>,
              nonTopLevel |-> <<>>, pkgsToImport |-> {}]
        ELSE IF r.state.brackCount > 0
        THEN [panic |-> ErrBracket(r.state.brackOpenAt, r.state.brackCount),
              topLevel |-> <<>>, nonTopLevel |-> <<>>, pkgsToImport |-> {}]
        ELSE [panic |-> <<>>, topLevel |-> r.topLevel,
              nonTopLevel |-> r.nonTopLevel,
              pkgsToImport |-> r.state.pkgsToImport]

Callers ==
    {"A", "B"}

\* a call is between its entry into Eval and its return
Active(i) ==
    calls[i].pc \notin {"start", "done"}

\* calls after a step of call i that leaves it with the locals new; when the
\* step is the entry into Eval, the calls active at that moment have not run
\* alone
Moved(i, new) ==
    [j \in Callers |->
        IF j = i THEN new
        ELSE IF calls[i].pc = "start" /\ Active(j)
        THEN [calls[j] EXCEPT !.alone = FALSE]
        ELSE calls[j]]

\* Eval's deferred recover, in call i
CallRecovered(i, e) ==
    [calls[i] EXCEPT !.out = <<>>, !.err = e, !.panicked = TRUE, !.pc = "done"]

\* O_TRUNC left out of the flags of os.OpenFile: opening keeps the content
TruncatedNot(file) ==
    file

\* gore_eval.go after os.OpenFile with O_TRUNC: an empty file
Truncated(file) ==
    NoUnit

\* gore_eval.go after fh.WriteString(text) at offset 0.  Into an empty file this
\* leaves text; into a file another call has written since it leaves text, or
\* text followed by the rest of a longer earlier content
Overwritten(text, file) ==
    [wrapped |-> text.wrapped, imports |-> text.imports, clauses |-> text.clauses,
     topLevel |-> text.topLevel, main |-> text.main, raw |-> text.raw,
     rest |-> file]

WriteOutcomes(text, file) ==
    IF file = NoUnit \/ file = text THEN {text}
    ELSE {text, Overwritten(text, file)}

\* lines 99-109, 334-339: Eval up to its first call of run
CallEval(i) ==
    /\ calls[i].pc = "start"
    /\ LET c == calls[i]
           alone == \A j \in Callers \ {i} : ~Active(j)
           r == partition(expandAliases(c.code))
           imports == r.pkgsToImport \cup {Pfmt}
       IN  calls' = Moved(i,
              IF HasPackageDecl(c.code)
              THEN [c EXCEPT !.unit = PassThrough(c.code), !.site = "passthrough",
                             !.pc = "save", !.alone = alone]
              ELSE IF r.panic # <<>>
              THEN [CallRecovered(i, r.panic) EXCEPT !.alone = alone]
              ELSE [c EXCEPT !.topLevel = r.topLevel, !.nonTopLevel = r.nonTopLevel,
                             !.pkgsToImport = imports,
                             !.unit = buildMain(r.topLevel, r.nonTopLevel, imports),
                             !.site = "first", !.pc = "save", !.alone = alone])
    /\ UNCHANGED <<code, pc, site, src, pos, state, lineNum, topLevel, nonTopLevel,
                   routed, unit, tmpfile, execs, attempts, out, err, panicked>>

\* lines 395-403: save opens the file, which empties it
CallOpen(i) ==
    /\ calls[i].pc = "save"
    /\ tmpfile' = Truncated(tmpfile)
    /\ calls' = Moved(i, [calls[i] EXCEPT !.pc = "write"])
    /\ UNCHANGED <<code, pc, site, src, pos, state, lineNum, topLevel, nonTopLevel,
                   routed, unit, execs, attempts, out, err, panicked>>

\* lines 403-406: the file cannot be opened
CallOpenFail(i) ==
    /\ calls[i].pc = "save"
    /\ calls' = Moved(i, CallRecovered(i, ErrOpenFile))
    /\ UNCHANGED <<code, pc, site, src, pos, state, lineNum, topLevel, nonTopLevel,
                   routed, unit, tmpfile, execs, attempts, out, err, panicked>>

\* lines 407-409: save writes the unit and closes the file
CallWrite(i) ==
    /\ calls[i].pc = "write"
    /\ tmpfile' \in WriteOutcomes(calls[i].unit, tmpfile)
    /\ calls' = Moved(i, [calls[i] EXCEPT !.pc = "exec"])
    /\ UNCHANGED <<code, pc, site, src, pos, state, lineNum, topLevel, nonTopLevel,
                   routed, unit, execs, attempts, out, err, panicked>>

\* what "go run" prints for a call: one line, which names an import when the
\* run fails
Replies ==
    { <<Redeclared(Pfmt)>> }

\* lines 376-391: "go run" on the path of the file: it compiles what the file
\* holds then
CallExec(i) ==
    /\ calls[i].pc = "exec"
    /\ \E ok \in BOOLEAN, lines \in Replies :
          /\ calls' = Moved(i, [calls[i] EXCEPT !.out = runResult(ok, lines).out,
                                                !.err = runResult(ok, lines).err,
                                                !.pc = "ran"])
          /\ execs' = Append(execs, [by |-> i, unit |-> tmpfile,
                                     assembled |-> calls[i].unit,
                                     alone |-> calls[i].alone, ok |-> ok])
    /\ UNCHANGED <<code, pc, site, src, pos, state, lineNum, topLevel, nonTopLevel,
                   routed, unit, tmpfile, attempts, out, err, panicked>>

\* lines 340-344: the repaired unit goes to run
CallRetry(i) ==
    /\ calls[i].pc = "ran"
    /\ retries(calls[i].site, calls[i].err, calls[i].pkgsToImport)
    /\ LET c == calls[i]
           imports == repairImports(c.err, c.pkgsToImport).pkgsToImport
       IN  calls' = Moved(i, [c EXCEPT !.pkgsToImport = imports,
                                       !.unit = buildMain(c.topLevel, c.nonTopLevel, imports),
                                       !.site = "retry", !.pc = "save"])
    /\ UNCHANGED <<code, pc, site, src, pos, state, lineNum, topLevel, nonTopLevel,
                   routed, unit, tmpfile, execs, attempts, out, err, panicked>>

\* line 346, and lines 102-103
CallReturn(i) ==
    /\ calls[i].pc = "ran"
    /\ ~retries(calls[i].site, calls[i].err, calls[i].pkgsToImport)
    /\ calls' = Moved(i, [calls[i] EXCEPT !.pc = "done"])
    /\ UNCHANGED <<code, pc, site, src, pos, state, lineNum, topLevel, nonTopLevel,
                   routed, unit, tmpfile, execs, attempts, out, err, panicked>>

RaceInputs ==
    { <<"x">>,
      <<"o","s",".","a",NL>>,
      <<"p","a","c","k","a","g","e"," ","x",NL>>,
      <<"x","{",NL,"x",NL>> }

NewCall(c) ==
    [code |-> c, pc |-> "start", site |-> "none", unit |-> NoUnit,
     topLevel |-> <<>>, nonTopLevel |-> <<>>, pkgsToImport |-> {},
     out |-> <<>>, err |-> <<>>, panicked |-> FALSE, alone |-> TRUE]

InitRace ==
    /\ code = <<>>
    /\ pc = "calls"
    /\ src = <<>>
    /\ pos = 0
    /\ state = NewState
    /\ lineNum = 0
    /\ topLevel = <<>>
    /\ nonTopLevel = <<>>
    /\ routed = <<>>
    /\ unit = NoUnit
    /\ tmpfile = NoUnit
    /\ execs = <<>>
    /\ attempts = 0
    /\ out = <<>>
    /\ err = <<>>
    /\ panicked = FALSE
    /\ site = "none"
    /\ \E given \in [Callers -> RaceInputs] :
          calls = [i \in Callers |-> NewCall(given[i])]

NextRace ==
    \E i \in Callers :
        \/ CallEval(i)
        \/ CallOpen(i)
        \/ CallOpenFail(i)
        \/ CallWrite(i)
        \/ CallExec(i)
        \/ CallRetry(i)
        \/ CallReturn(i)

SpecRace ==
    InitRace /\ [][NextRace]_vars

---------------------------------------------------------------------------
(* The temp file under concurrent invocations *)

\* a "go run" that compiled what another call assembled
RanUnitOf(e, j) ==
    /\ j # e.by
    /\ calls[j].code # calls[e.by].code
    /\ e.unit = calls[j].unit
    /\ e.unit # e.assembled

\* C21: every call saves its unit to the one file gore_eval.go and then runs the
\* compiler on that path.  A call that ran alone, with no other call between its
\* entry into Eval and its return at any moment up to the compile attempt,
\* compiles in every attempt exactly the unit it assembled itself.  (That two
\* calls on different inputs which overlap can compile each other's unit is the
\* state C21_Witness describes.)
C21_TempFileRace ==
    \A k \in 1..Len(execs) :
        execs[k].alone => execs[k].unit = execs[k].assembled

\* two calls on different inputs overlapped, and a compile attempt of one ran
\* the unit the other had written
C21_Witness ==
    \E k \in 1..Len(execs) :
        /\ ~execs[k].alone
        /\ \E j \in Callers : RanUnitOf(execs[k], j)

===========================================================================
